---- MODULE Spec2Model ----
(***************************************************************************)
(* NovusDB Python driver (drivers/python/novusdb.py): one NovusDB          *)
(* connection object over the native boundary (NovusDB_open, _close,       *)
(* _exec, _insert_json, _collections, _error, _dump).                      *)
(*                                                                         *)
(* The native engine is outside the driver: every value it returns is an   *)
(* input, drawn from the small sets below.  Each method of the class is a  *)
(* pure operator from the stored handle and the native return values to    *)
(* the method's outcome (value returned or exception raised, the native    *)
(* calls it issued, the handle it leaves); each action applies one method. *)
(*                                                                         *)
(* Spec     : one caller, one method call at a time (every boundary call   *)
(*            is a blocking round trip).                                   *)
(* SpecConc : close() run by several threads, one bytecode-level step at a *)
(*            time (ctypes.CDLL releases the GIL around the foreign call). *)
(* SpecOrder: Spec with the issued method calls and the native calls the    *)
(*            engine observes recorded, for a bounded number of calls.     *)
(***************************************************************************)
EXTENDS Integers, Sequences, FiniteSets, TLC

VARIABLES
    opened,     \* "none" before __init__, then "ok" or "failed" (it raised)
    handle,     \* self._handle (0 before __init__ has stored it)
    finalized,  \* __del__ has run
    scope,      \* the with-block: [state, hEnter, hExit, exc]
    released,   \* native side: the handles passed to NovusDB_close, in order
    prev,       \* the method call before the last: [op, exc, h]
    last,       \* the last method call and its outcome
    pc,         \* SpecConc: each thread's position inside close()
    targ,       \* SpecConc: the argument each thread passed to NovusDB_close
    tracing,    \* SpecOrder: a recording stub stands at the native boundary
    issued,     \* SpecOrder: the method calls the caller made, in order
    observed    \* SpecOrder: the native functions the engine saw, in order

trace == <<tracing, issued, observed>>

vars ==
    <<opened, handle, finalized, scope, released, prev, last, pc, targ, trace>>

---------------------------------------------------------------------------
(* Bounds *)

\* The engine hands out the session handles 1..MaxHandle (0 = failure).
MaxHandle == 2
\* Document ids the engine reports are in -1..MaxId (< 0 = failure).
MaxId == 1
\* Threads calling close() in SpecConc are 1..NThreads.
NThreads == 2
\* Method calls recorded per behaviour in SpecOrder.
MaxOps == 3

Handles == 0..MaxHandle
Ids == (-1)..MaxId
Threads == 1..NThreads

---------------------------------------------------------------------------
(* Values crossing the boundary *)

\* A c_char_p result: NULL (ctypes gives None) or a byte string.
RawNull == [null |-> TRUE, text |-> ""]
Raw(s) == [null |-> FALSE, text |-> s]

\* Texts the engine reports through NovusDB_error.
ErrTexts == {"", "bad json"}
ErrRaws == {RawNull} \cup {Raw(s) : s \in ErrTexts}

\* Scripts NovusDB_dump returns.
DumpRaws == {RawNull, Raw(""), Raw("CREATE users")}

\* Messages of an {"error": msg} envelope.
Msgs == {"syntax error", "insert_json failed"}

\* What NovusDB_exec returns, after json.loads: the kind of the text and, for a
\* JSON object, its keys and the value under "error" / "message".
\*   NULL     a NULL pointer
\*   badjson  text that is no JSON document
\*   array    a JSON array (of documents)
\*   object   a JSON object
SuccessKeys == {"docs", "rows_affected", "last_insert_id"}
Env(kind, keys, m) == [kind |-> kind, keys |-> keys, error |-> m]
NoEnv == Env("none", {}, "")
EnvSuccess == Env("object", SuccessKeys, "")
EnvError(m) == Env("object", {"error"}, m)
Envelopes ==
    {Env("NULL", {}, ""), Env("badjson", {}, ""), Env("array", {}, ""),
     EnvSuccess, Env("object", {}, ""), Env("object", {"docs"}, "")}
    \cup {EnvError(m) : m \in Msgs}
    \cup {Env("object", {"message"}, m) : m \in Msgs}
    \cup {Env("object", SuccessKeys \cup {"error"}, m) : m \in Msgs}

\* What NovusDB_collections returns, after json.loads.
CollRaws ==
    {[kind |-> "NULL", names |-> <<>>], [kind |-> "badjson", names |-> <<>>],
     [kind |-> "array", names |-> <<>>], [kind |-> "array", names |-> <<"users">>]}

\* Status NovusDB_close returns (0 = success).
Statuses == {0, 1}

\* One native boundary call: the function and the handle passed to it
\* (NovusDB_open takes a path and no handle: 0).  The engine's answers are not
\* tied to the handle's validity: on a zero handle it may answer anything.
NativeCall(fn, h) == [fn |-> fn, h |-> h]

---------------------------------------------------------------------------
(* Outcome of a method call *)

Blank ==
    [op |-> "none", exc |-> "none", msg |-> "", id |-> 0, text |-> "",
     names |-> <<>>, env |-> NoEnv, raw |-> RawNull, status |-> 0,
     ret |-> 0, h |-> 0, handle |-> 0, native |-> <<>>]

\* A method called with self._handle = h that has, so far, issued no native
\* call and left the handle alone.
Call(op, h) == [Blank EXCEPT !.op = op, !.h = h, !.handle = h]

Raise(r, exc, msg) == [r EXCEPT !.exc = exc, !.msg = msg]

Summary(r) == [op |-> r.op, exc |-> r.exc, h |-> r.handle]

---------------------------------------------------------------------------
(* The methods of class NovusDB *)

\* __init__ without the check of line 107: the zero handle is kept silently.
init_no_raise(ret) ==
    [Call("__init__", 0) EXCEPT
         !.native = <<NativeCall("NovusDB_open", 0)>>, !.handle = ret]

\* __init__, lines 105-108: store what NovusDB_open returned; raise on 0.
__init__(ret) ==
    LET r == [Call("__init__", 0) EXCEPT
                  !.native = <<NativeCall("NovusDB_open", 0)>>,
                  !.handle = ret]
    IN  IF ret = 0 THEN Raise(r, "RuntimeError", "Failed to open database") ELSE r

\* json.loads(raw.decode("utf-8")), lines 119 and 146: the exception it raises.
json_loads_exc(kind) ==
    CASE kind = "NULL" -> "AttributeError"
      [] kind = "badjson" -> "JSONDecodeError"
      [] OTHER -> "none"

\* exec that hands the {"error": ...} dict back instead of raising.
exec_returns_error(h, env) ==
    LET r == [Call("exec", h) EXCEPT
                  !.native = <<NativeCall("NovusDB_exec", h)>>, !.env = env]
    IN  IF json_loads_exc(env.kind) # "none"
          THEN Raise(r, json_loads_exc(env.kind), "")
        ELSE r

\* exec that also takes a "message" key for an engine failure.
exec_message_key(h, env) ==
    LET r == [Call("exec", h) EXCEPT
                  !.native = <<NativeCall("NovusDB_exec", h)>>, !.env = env]
    IN  IF json_loads_exc(env.kind) # "none"
          THEN Raise(r, json_loads_exc(env.kind), "")
        ELSE IF "error" \in env.keys \/ "message" \in env.keys
          THEN Raise(r, "RuntimeError", env.error)
        ELSE r

\* exec, lines 118-124.
exec(h, env) ==
    LET r == [Call("exec", h) EXCEPT
                  !.native = <<NativeCall("NovusDB_exec", h)>>, !.env = env]
    IN  IF json_loads_exc(env.kind) # "none"
          THEN Raise(r, json_loads_exc(env.kind), "")
        ELSE IF "error" \in env.keys
          THEN Raise(r, "RuntimeError", env.error)
        ELSE r

\* last_error, lines 148-151: the text, "" for NULL or an empty string.
error_text(raw) == IF raw.null \/ raw.text = "" THEN "" ELSE raw.text

last_error(h, raw) ==
    [Call("last_error", h) EXCEPT
         !.native = <<NativeCall("NovusDB_error", h)>>,
         !.raw = raw, !.text = error_text(raw)]

\* insert_json with "doc_id <= 0" for "doc_id < 0".
insert_json_le(h, id, raw) ==
    LET r == [Call("insert_json", h) EXCEPT
                  !.native = <<NativeCall("NovusDB_insert_json", h)>>, !.id = id]
        e == last_error(h, raw)
    IN  IF id <= 0
          THEN [Raise(r, "RuntimeError",
                      IF e.text # "" THEN e.text ELSE "insert_json failed")
                   EXCEPT !.native = r.native \o e.native, !.raw = raw]
        ELSE [r EXCEPT !.ret = id]

\* insert_json without the fallback text of line 140.
insert_json_no_fallback(h, id, raw) ==
    LET r == [Call("insert_json", h) EXCEPT
                  !.native = <<NativeCall("NovusDB_insert_json", h)>>, !.id = id]
        e == last_error(h, raw)
    IN  IF id < 0
          THEN [Raise(r, "RuntimeError", e.text)
                   EXCEPT !.native = r.native \o e.native, !.raw = raw]
        ELSE [r EXCEPT !.ret = id]

\* insert_json, lines 133-141.
insert_json(h, id, raw) ==
    LET r == [Call("insert_json", h) EXCEPT
                  !.native = <<NativeCall("NovusDB_insert_json", h)>>, !.id = id]
        e == last_error(h, raw)
    IN  IF id < 0
          THEN [Raise(r, "RuntimeError",
                      IF e.text # "" THEN e.text ELSE "insert_json failed")
                   EXCEPT !.native = r.native \o e.native, !.raw = raw]
        ELSE [r EXCEPT !.ret = id]

\* collections that drops the handle when decoding fails.
collections_invalidates(h, c) ==
    LET r == [Call("collections", h) EXCEPT
                  !.native = <<NativeCall("NovusDB_collections", h)>>]
    IN  IF json_loads_exc(c.kind) # "none"
          THEN [Raise(r, json_loads_exc(c.kind), "") EXCEPT !.handle = 0]
        ELSE [r EXCEPT !.names = c.names]

\* collections, lines 143-146.
collections(h, c) ==
    LET r == [Call("collections", h) EXCEPT
                  !.native = <<NativeCall("NovusDB_collections", h)>>]
    IN  IF json_loads_exc(c.kind) # "none"
          THEN Raise(r, json_loads_exc(c.kind), "")
        ELSE [r EXCEPT !.names = c.names]

\* dump that answers without crossing the boundary (the call is put off).
dump_deferred(h, raw) == Call("dump", h)

\* dump, lines 153-156.
dump(h, raw) ==
    [Call("dump", h) EXCEPT
         !.native = <<NativeCall("NovusDB_dump", h)>>,
         !.raw = raw, !.text = IF raw.null \/ raw.text = "" THEN "" ELSE raw.text]

\* close without line 162: the handle is never cleared.
close_keeps_handle(h, status) ==
    IF h # 0
      THEN [Call("close", h) EXCEPT
                !.native = <<NativeCall("NovusDB_close", h)>>, !.status = status]
    ELSE Call("close", h)

\* close without line 161: the handle is cleared, the session never released.
close_no_release(h, status) == [Call("close", h) EXCEPT !.handle = 0]

\* close without the test of line 160: NovusDB_close is called on any handle.
close_unguarded(h, status) ==
    [Call("close", h) EXCEPT
         !.native = <<NativeCall("NovusDB_close", h)>>,
         !.status = status, !.handle = 0]

\* close, lines 158-162: the status NovusDB_close returns is dropped.
close(h, status) ==
    IF h # 0
      THEN [Call("close", h) EXCEPT
                !.native = <<NativeCall("NovusDB_close", h)>>,
                !.status = status, !.handle = 0]
    ELSE Call("close", h)

\* __enter__, lines 164-165.
__enter__(h) == Call("__enter__", h)

\* __exit__ that does not close.
exit_noop(h, status) == Call("__exit__", h)

\* __exit__, lines 167-168, and __del__, lines 170-171: both are close().
__exit__(h, status) == [close(h, status) EXCEPT !.op = "__exit__"]

__del__(h, status) == [close(h, status) EXCEPT !.op = "__del__"]

---------------------------------------------------------------------------
(* Native side, as a call-counting stub sees it *)

IsRelease(c) == c.fn = "NovusDB_close"

\* The handles that the calls cs passed to NovusDB_close, in order.
ReleasedHandles(cs) ==
    [i \in 1..Len(SelectSeq(cs, IsRelease)) |-> SelectSeq(cs, IsRelease)[i].h]

---------------------------------------------------------------------------
(* Spec: one caller *)

NoScope == [state |-> "none", hEnter |-> 0, hExit |-> 0, exc |-> FALSE]

Start(tr) ==
    /\ tracing = tr
    /\ issued = <<>>
    /\ observed = <<>>
    /\ opened = "none"
    /\ handle = 0
    /\ finalized = FALSE
    /\ scope = NoScope
    /\ released = <<>>
    /\ prev = Summary(Blank)
    /\ last = Blank
    /\ pc = [t \in Threads |-> "idle"]
    /\ targ = [t \in Threads |-> 0]

Init == Start(FALSE)

\* The functions of the native calls cs, in order.
Functions(cs) == [i \in 1..Len(cs) |-> cs[i].fn]

\* With the recording stub in place: the method call r is noted when it is
\* made, and each native call it makes when the engine receives it, all before
\* r returns (ctypes foreign calls are synchronous).
Traced(r) ==
    /\ tracing => Len(issued) < MaxOps
    /\ issued' = IF tracing
                   THEN Append(issued, [op |-> r.op, h |-> r.h,
                                        raised |-> r.exc # "none"])
                 ELSE issued
    /\ observed' = IF tracing THEN observed \o Functions(r.native) ELSE observed
    /\ UNCHANGED tracing

\* The method call r has returned or raised.
Done(r) ==
    /\ handle' = r.handle
    /\ released' = released \o ReleasedHandles(r.native)
    /\ prev' = Summary(last)
    /\ last' = r
    /\ Traced(r)

\* The caller holds a constructed object that has not been finalized.
Alive == opened # "none" /\ ~finalized

\* db = NovusDB(path)
Open ==
    /\ opened = "none"
    /\ \E ret \in Handles :
        /\ Done(__init__(ret))
        /\ opened' = IF __init__(ret).exc = "none" THEN "ok" ELSE "failed"
    /\ UNCHANGED <<finalized, scope, pc, targ>>

Exec ==
    /\ Alive /\ opened = "ok"
    /\ \E env \in Envelopes : Done(exec(handle, env))
    /\ UNCHANGED <<opened, finalized, scope, pc, targ>>

InsertJson ==
    /\ Alive /\ opened = "ok"
    /\ \E id \in Ids, raw \in ErrRaws : Done(insert_json(handle, id, raw))
    /\ UNCHANGED <<opened, finalized, scope, pc, targ>>

Collections ==
    /\ Alive /\ opened = "ok"
    /\ \E c \in CollRaws : Done(collections(handle, c))
    /\ UNCHANGED <<opened, finalized, scope, pc, targ>>

LastError ==
    /\ Alive /\ opened = "ok"
    /\ \E raw \in ErrRaws : Done(last_error(handle, raw))
    /\ UNCHANGED <<opened, finalized, scope, pc, targ>>

Dump ==
    /\ Alive /\ opened = "ok"
    /\ \E raw \in DumpRaws : Done(dump(handle, raw))
    /\ UNCHANGED <<opened, finalized, scope, pc, targ>>

Close ==
    /\ Alive
    /\ \E status \in Statuses : Done(close(handle, status))
    /\ UNCHANGED <<opened, finalized, scope, pc, targ>>

\* with db: ...
Enter ==
    /\ Alive /\ scope.state = "none"
    /\ Done(__enter__(handle))
    /\ scope' = [scope EXCEPT !.state = "entered", !.hEnter = handle]
    /\ UNCHANGED <<opened, finalized, pc, targ>>

\* The with-block is left, normally (exc = FALSE) or by an exception raised in
\* its body (exc = TRUE).
Exit ==
    /\ Alive /\ scope.state = "entered"
    /\ \E status \in Statuses : Done(__exit__(handle, status))
    /\ \E exc \in BOOLEAN :
        scope' = [scope EXCEPT !.state = "left", !.hExit = handle, !.exc = exc]
    /\ UNCHANGED <<opened, finalized, pc, targ>>

\* The object is finalized, after the with-block if there is one.
Del ==
    /\ Alive /\ scope.state # "entered"
    /\ \E status \in Statuses : Done(__del__(handle, status))
    /\ finalized' = TRUE
    /\ UNCHANGED <<opened, scope, pc, targ>>

Next ==
    \/ Open
    \/ Exec
    \/ InsertJson
    \/ Collections
    \/ LastError
    \/ Dump
    \/ Close
    \/ Enter
    \/ Exit
    \/ Del

Spec == Init /\ [][Next]_vars

---------------------------------------------------------------------------
(* SpecConc: close() of one connection called from several threads *)

\* line 160, "if self._handle:": the thread reads the handle and returns at
\* once when it is 0.
CloseTest(t) ==
    /\ opened # "none" /\ pc[t] = "idle"
    /\ pc' = [pc EXCEPT ![t] = IF handle # 0 THEN "call" ELSE "done"]
    /\ UNCHANGED <<opened, handle, finalized, scope, released, prev, last, targ, trace>>

\* line 161: the thread reads self._handle again, as the argument, and enters
\* NovusDB_close; the interpreter lock is released for the foreign call.
CloseCall(t) ==
    /\ pc[t] = "call"
    /\ targ' = [targ EXCEPT ![t] = handle]
    /\ released' = Append(released, handle)
    /\ pc' = [pc EXCEPT ![t] = "native"]
    /\ UNCHANGED <<opened, handle, finalized, scope, prev, last, trace>>

\* line 161: NovusDB_close returns; its status is dropped.
CloseReturn(t) ==
    /\ pc[t] = "native"
    /\ pc' = [pc EXCEPT ![t] = "store"]
    /\ UNCHANGED <<opened, handle, finalized, scope, released, prev, last, targ, trace>>

\* line 162, "self._handle = 0".
CloseStore(t) ==
    /\ pc[t] = "store"
    /\ handle' = 0
    /\ pc' = [pc EXCEPT ![t] = "done"]
    /\ UNCHANGED <<opened, finalized, scope, released, prev, last, targ, trace>>

\* close() returns to the thread's caller, which may call it again.
CloseExit(t) ==
    /\ pc[t] = "done"
    /\ pc' = [pc EXCEPT ![t] = "idle"]
    /\ UNCHANGED <<opened, handle, finalized, scope, released, prev, last, targ, trace>>

NextConc ==
    \/ Open
    \/ \E t \in Threads : CloseTest(t)
    \/ \E t \in Threads : CloseCall(t)
    \/ \E t \in Threads : CloseReturn(t)
    \/ \E t \in Threads : CloseStore(t)
    \/ \E t \in Threads : CloseExit(t)

SpecConc == Init /\ [][NextConc]_vars

---------------------------------------------------------------------------
(* SpecOrder: one caller, with the calls recorded on both sides of the
   boundary *)

InitOrder == Start(TRUE)

SpecOrder == InitOrder /\ [][Next]_vars

---------------------------------------------------------------------------
(* Properties *)

DataOps == {"exec", "insert_json", "collections", "last_error", "dump"}

\* Open: NovusDB_open returned a non-zero handle (__init__ did not raise) and
\* that session has not been passed to NovusDB_close.
IsOpen == opened = "ok" /\ released = <<>>

\* The exception classes of the specification, as the code raises them: each
\* is the RuntimeError of one raise statement.
IsOpenError(r) == r.op = "__init__" /\ r.exc = "RuntimeError"
IsQueryError(r) == r.op = "exec" /\ r.exc = "RuntimeError"
IsInsertError(r) == r.op = "insert_json" /\ r.exc = "RuntimeError"

\* C1: on a connection that was opened successfully every close() returns
\* normally, the native release has been called exactly once in total once a
\* close() has run, and a close() that directly follows a close() issues no
\* native call.
C1_CloseOnce ==
    opened = "ok" =>
        /\ Len(released) <= 1
        /\ last.op = "close" => (last.exc = "none" /\ Len(released) = 1)
        /\ (prev.op = "close" /\ last.op = "close") => last.native = <<>>

C1_Witness ==
    /\ opened = "ok" /\ prev.op = "close" /\ last.op = "close"
    /\ last.exc = "none" /\ prev.exc = "none" /\ Len(released) = 1

\* C2: after close() has completed, exec, insert_json, collections, dump and
\* last_error fail with UseAfterCloseError and issue no native call.
C2_UseAfterClose ==
    (opened = "ok" /\ released # <<>> /\ last.op \in DataOps) =>
        (last.exc = "UseAfterCloseError" /\ last.native = <<>>)

\* C3: the stored handle is non-zero exactly while the connection is Open, and
\* once the handle of a constructed connection is zero it stays zero.
C3_HandleIffOpen ==
    /\ [](handle # 0 <=> IsOpen)
    /\ [][(opened # "none" /\ handle = 0) => handle' = 0]_vars

C3_Witness ==
    /\ opened = "ok" /\ prev.op = "close" /\ last.op \in DataOps
    /\ last.h = 0 /\ handle = 0

\* C4: when NovusDB_open returns 0, __init__ raises OpenError, the handle is 0,
\* and nothing done later on the object (close, __exit__, __del__) issues a
\* native call; no release is ever made.
C4_OpenFailure ==
    /\ (last.op = "__init__" /\ last.handle = 0) =>
           (IsOpenError(last) /\ opened = "failed")
    /\ opened = "failed" =>
           /\ handle = 0
           /\ released = <<>>
           /\ last.op # "__init__" => last.native = <<>>

C4_Witness ==
    /\ opened = "failed" /\ scope.state = "left" /\ finalized
    /\ prev.op = "close" /\ last.op = "__del__" /\ released = <<>>

C6_Original ==
    (last.op = "insert_json" /\ last.h # 0) =>
        IF last.id >= 0
          THEN last.exc = "none" /\ last.ret = last.id
        ELSE IsInsertError(last)
             /\ last.msg = (IF last.raw.null THEN "" ELSE last.raw.text)

\* C6, amended: insert_json on an Open connection returns the native id when
\* it is >= 0 and raises InsertError exactly when it is negative; the message
\* is the text NovusDB_error returned for the same handle when that text is not
\* empty, and "insert_json failed" when it is empty or NULL.
C6_InsertError ==
    (last.op = "insert_json" /\ last.h # 0) =>
        IF last.id >= 0
          THEN last.exc = "none" /\ last.ret = last.id
        ELSE /\ IsInsertError(last)
             /\ Len(last.native) = 2
             /\ last.native[2] = NativeCall("NovusDB_error", last.h)
             /\ last.msg = (IF last.raw.null \/ last.raw.text = ""
                              THEN "insert_json failed" ELSE last.raw.text)

C6_Witness ==
    /\ last.op = "insert_json" /\ last.h # 0 /\ last.id < 0
    /\ ~last.raw.null /\ last.raw.text = ""
    /\ IsInsertError(last) /\ last.msg = "insert_json failed"

\* C7: exec, insert_json, collections, dump and last_error leave the handle as
\* it was, whether they return or raise, and pass that handle to every native
\* call they make; after one of them has raised on an Open connection the
\* connection is still Open and the next one goes to the engine on the same
\* handle.
C7_HandleFrame ==
    /\ last.op \in DataOps =>
           /\ handle = last.h
           /\ \A i \in 1..Len(last.native) : last.native[i].h = last.h
    /\ (prev.op \in DataOps /\ prev.exc # "none" /\ prev.h # 0
            /\ last.op \in DataOps) =>
           /\ IsOpen
           /\ last.native # <<>>
           /\ last.native[1].h = prev.h

C7_Witness ==
    /\ prev.op = "exec" /\ prev.exc = "JSONDecodeError" /\ prev.h # 0
    /\ IsInsertError(last) /\ last.native[1].h = prev.h /\ handle = prev.h

\* C8: once a with-block entered on an Open connection has been left, by any
\* path, the native release has been called exactly once, on the handle the
\* block was entered with; finalization afterwards adds no release.
C8_ScopedRelease ==
    (opened = "ok" /\ scope.state = "left" /\ scope.hEnter # 0) =>
        released = <<scope.hEnter>>

C8_Witness ==
    /\ opened = "ok" /\ scope.state = "left" /\ scope.hEnter # 0
    /\ scope.hExit = 0 /\ scope.exc /\ finalized
    /\ released = <<scope.hEnter>>

\* C9: of close() calls that run concurrently on one connection at most one
\* issues the native release call.
C9_SingleRelease == Len(released) <= 1

\* C10: when NovusDB_close returns a non-zero status, close() raises CloseError
\* and the connection ends Closed with handle zero.
C10_CloseError ==
    (last.op = "close" /\ last.native # <<>> /\ last.status # 0) =>
        (last.exc # "none" /\ handle = 0)

\* C11: exec returns a result only for an envelope that holds all three
\* success fields and no error message; an envelope that cannot be decoded, or
\* that has neither an error message nor all the success fields, makes exec
\* fail with ProtocolError (an error that is not QueryError).
C11_SuccessOnlyComplete ==
    (last.op = "exec" /\ last.h # 0) =>
        /\ last.exc = "none" =>
               /\ last.env.kind = "object"
               /\ SuccessKeys \subseteq last.env.keys
               /\ "error" \notin last.env.keys
        /\ (last.env.kind # "object"
                \/ ("error" \notin last.env.keys
                        /\ ~(SuccessKeys \subseteq last.env.keys))) =>
               (last.exc # "none" /\ ~IsQueryError(last))

\* The handles passed to NovusDB_close before the last method call.
ReleasedBefore ==
    SubSeq(released, 1, Len(released) - Len(ReleasedHandles(last.native)))

\* C12: every native call a method makes carries the handle this connection
\* stores at that moment, and never a handle that an earlier NovusDB_close
\* call has released.
C12_NoUseAfterRelease ==
    last.op # "__init__" =>
        \A i \in 1..Len(last.native) :
            /\ last.native[i].h = last.h
            /\ \A j \in 1..Len(ReleasedBefore) :
                   ReleasedBefore[j] # last.native[i].h

C12_Witness ==
    /\ opened = "ok" /\ prev.op = "close" /\ released # <<>>
    /\ last.op \in DataOps /\ last.native # <<>>
    /\ last.native[1].h = 0 /\ released[1] # 0

C15_ReleaseOwnHandle ==
    /\ [][released' # released =>
              /\ handle # 0
              /\ released' = Append(released, handle)]_vars
    /\ [][handle' # handle =>
              \/ handle' = 0
              \/ last'.op = "__init__" /\ handle' = last'.handle]_vars

C15_Witness ==
    /\ opened = "ok" /\ finalized /\ scope.state = "left"
    /\ Len(released) = 1 /\ released[1] # 0 /\ handle = 0

\* C16: a failing insert_json makes exactly one more native call, NovusDB_error
\* on the same handle, and its message is never empty: the engine's text when
\* there is one, "insert_json failed" otherwise; a succeeding insert_json makes
\* the NovusDB_insert_json call only.
C16_InsertErrorCall ==
    last.op = "insert_json" =>
        IF last.exc # "none"
          THEN /\ last.native = <<NativeCall("NovusDB_insert_json", last.h),
                                  NativeCall("NovusDB_error", last.h)>>
               /\ last.msg # ""
               /\ last.raw \in {RawNull, Raw("")} => last.msg = "insert_json failed"
               /\ last.raw \notin {RawNull, Raw("")} => last.msg = last.raw.text
        ELSE last.native = <<NativeCall("NovusDB_insert_json", last.h)>>

C16_Witness ==
    /\ last.op = "insert_json" /\ last.id < 0 /\ last.raw = Raw("bad json")
    /\ last.msg = "bad json" /\ Len(last.native) = 2

\* The native calls the operation e stands for at the boundary.
Expected(e) ==
    CASE e.op = "__init__" -> <<"NovusDB_open">>
      [] e.op = "exec" -> <<"NovusDB_exec">>
      [] e.op = "insert_json" ->
             IF e.raised THEN <<"NovusDB_insert_json", "NovusDB_error">>
             ELSE <<"NovusDB_insert_json">>
      [] e.op = "collections" -> <<"NovusDB_collections">>
      [] e.op = "last_error" -> <<"NovusDB_error">>
      [] e.op = "dump" -> <<"NovusDB_dump">>
      [] e.op \in {"close", "__exit__", "__del__"} ->
             IF e.h # 0 THEN <<"NovusDB_close">> ELSE <<>>
      [] OTHER -> <<>>

RECURSIVE ExpectedAll(_)
ExpectedAll(es) ==
    IF es = <<>> THEN <<>> ELSE Expected(Head(es)) \o ExpectedAll(Tail(es))

\* C13: the engine sees the native calls in the order the caller issued the
\* operations: when an operation has returned, the calls observed so far are
\* exactly those of the operations issued so far, operation by operation.
C13_OrderPreserved == tracing => observed = ExpectedAll(issued)

C13_Witness ==
    /\ tracing /\ Len(issued) = 3
    /\ issued[2].op = "insert_json" /\ issued[2].raised
    /\ issued[3].op = "dump"
    /\ observed = <<"NovusDB_open", "NovusDB_insert_json", "NovusDB_error",
                    "NovusDB_dump">>

====
